---------------------------- MODULE Spec2Model ----------------------------
(***************************************************************************)
(* A model of two parts of the sdfx library:                               *)
(*                                                                         *)
(*   - sdf.TriDiagonal, the Thomas-algorithm solver behind the cubic       *)
(*     spline fitter, computed over exact rationals;                       *)
(*   - sdf.CubicSpline2D, the natural cubic spline fitted through a        *)
(*     sequence of knots with that solver;                                 *)
(*   - dev.renderer3.Render, the concurrent progressive renderer: one      *)
(*     producer, a pool of workers, the task that closes the result        *)
(*     channel, and the collector that runs on the caller's goroutine.     *)
(*                                                                         *)
(* SpecTri is the specification of the solver, SpecSpline that of the      *)
(* spline fitter, Spec that of the renderer.                               *)
(***************************************************************************)
EXTENDS Integers, Sequences, FiniteSets, TLC

VARIABLES
    triM,       \* TriDiagonal's argument m: a sequence of rows [X, Y, Z]
    triD,       \* TriDiagonal's argument d: the right-hand side
    triRes      \* the outcome of the call, NotCalled before it

VARIABLES
    knot,       \* CubicSpline2D's argument: a sequence of points [X, Y]
    splineRes   \* the outcome of the call, NotCalled before it

VARIABLES
    \* what outlives a call of Render
    pixelsRand,         \* r.pixelsRand, the cached pixel order
    state,              \* *RendererState: the camera fields
    stateLock,          \* who holds stateLock: "free" or "caller"
    cachedRenderLock,   \* who holds cachedRenderLock: "free", "render", "display"
    numCPU,             \* runtime.NumCPU()
    \* the arguments of the running call
    bounds,             \* boundsSize, <<width, height>> of fullRender
    fullRender,         \* fullRender's pixels, row-major
    partialRender,      \* the sink: "nil", "open" or "closed"
    ctxDone,            \* whether ctx is cancelled
    \* the locals of the running call and its goroutines
    pc,                 \* where Render's own goroutine stands
    cam,                \* camViewMatrix, camPos, camDir, camFovX
    producer,           \* the work generator: [pc, i]
    worker,             \* the worker goroutines: [pc, job] each
    closer,             \* the goroutine that closes jobResults
    jobsClosed,         \* close(jobs) has run
    jobResultsClosed,   \* close(jobResults) has run
    pixelNum,           \* the collector's pixelNum
    err,                \* the collector's err
    \* what the properties need to remember
    written,            \* per pixel, the SetRGBA calls of this pass that hit it
    cancelAt,           \* pixelNum when ctx was cancelled, -1 before
    oldRand,            \* r.pixelsRand as the call found it
    oldBounds,          \* boundsSize of the previous call
    shuffled,           \* whether this call ran rand.Shuffle
    passes,             \* calls of Render so far
    mutations           \* camera changes made by the caller so far

triVars == <<triM, triD, triRes>>

splineVars == <<knot, splineRes>>

numVars == <<triVars, splineVars>>

rendererVars == <<pixelsRand, state, stateLock, cachedRenderLock, numCPU>>

argVars == <<bounds, fullRender, partialRender, ctxDone>>

localVars == <<pc, cam, producer, worker, closer, jobsClosed, jobResultsClosed,
               pixelNum, err>>

historyVars == <<written, cancelAt, oldRand, oldBounds, shuffled, passes,
                 mutations>>

renderVars == <<rendererVars, argVars, localVars, historyVars>>

vars == <<numVars, renderVars>>

----------------------------------------------------------------------------
(* Exact rational arithmetic standing for float64: a value is <<num, den>> *)
(* in lowest terms with den > 0.  NaN, <<0, 0>>, is what a division by     *)
(* zero produces (the code guards every division, so it is never reached). *)

Abs(n) == IF n < 0 THEN -n ELSE n

RECURSIVE Gcd(_, _)
Gcd(a, b) == IF b = 0 THEN a ELSE Gcd(b, a % b)

NaN == <<0, 0>>

IsNaN(q) == q[2] = 0

Norm(n, d) ==
    IF d = 0 THEN NaN
    ELSE LET g == Gcd(Abs(n), Abs(d))
             s == IF d < 0 THEN -1 ELSE 1
         IN  <<(s * n) \div g, (s * d) \div g>>

Rat(n) == <<n, 1>>

RAdd(p, q) == IF IsNaN(p) \/ IsNaN(q) THEN NaN
              ELSE Norm(p[1] * q[2] + q[1] * p[2], p[2] * q[2])

RSub(p, q) == IF IsNaN(p) \/ IsNaN(q) THEN NaN
              ELSE Norm(p[1] * q[2] - q[1] * p[2], p[2] * q[2])

RMul(p, q) == IF IsNaN(p) \/ IsNaN(q) THEN NaN
              ELSE Norm(p[1] * q[1], p[2] * q[2])

RDiv(p, q) == IF IsNaN(p) \/ IsNaN(q) THEN NaN
              ELSE Norm(p[1] * q[2], p[2] * q[1])

----------------------------------------------------------------------------
(* TriDiagonal (Thomas algorithm).  Go slices are 0-based, sequences here  *)
(* 1-based: m[0] is m[1], m[n-1] is m[n].                                  *)

MaxN == 3                    \* the largest row count tried
OffVals == {0, 1}            \* values of a sub- or super-diagonal entry
DiagVals == {0, 1, 2}        \* values of a diagonal entry
RhsVals == {-2, 1}           \* values of a right-hand-side entry

V3 == [X : OffVals, Y : DiagVals, Z : OffVals]

SeqsUpTo(S, k) == UNION {[1..n -> S] : n \in 0..k}

NotCalled == [status |-> "not called"]

Panic(msg) == [status |-> "panic", msg |-> msg]

\* m[0] on an empty slice: the Go runtime's panic, not one the code states.
IndexOutOfRange == [status |-> "runtime panic", msg |-> "index out of range"]

Returned(x) == [status |-> "ok", x |-> x]

\* if len(d) != n
BadSizes(m, d) == Len(d) # Len(m)

\* if m[0].X != 0 || m[n-1].Z != 0
BadValues(m) == m[1].X # 0 \/ m[Len(m)].Z # 0

\* if m[0].Y == 0
FirstDiagIsZero(m) == m[1].Y = 0

\* if denom == 0
DenomIsZero_Unchecked(denom) == FALSE

DenomIsZero(denom) == denom = Rat(0)

\* denom := m[i].Y - m[i].X*cp[i-1]
Denom(m, cp, i) == RSub(Rat(m[i].Y), RMul(Rat(m[i].X), cp[i - 1]))

\* The elimination loop from row i on; cp and x hold rows 1..i-1.
RECURSIVE Eliminate(_, _, _, _, _)
Eliminate(m, d, i, cp, x) ==
    IF i > Len(m) THEN [failed |-> FALSE, cp |-> cp, x |-> x]
    ELSE LET denom == Denom(m, cp, i)
         IN  IF DenomIsZero(denom)
             THEN [failed |-> TRUE, cp |-> cp, x |-> x]
             ELSE Eliminate(m, d, i + 1,
                      Append(cp, RDiv(Rat(m[i].Z), denom)),
                      Append(x, RDiv(RSub(Rat(d[i]), RMul(Rat(m[i].X), x[i - 1])),
                                     denom)))

\* x[i] -= cp[i] * x[i+1]
BackStep_Added(cp, x, i) == RAdd(x[i], RMul(cp[i], x[i + 1]))

BackStep(cp, x, i) == RSub(x[i], RMul(cp[i], x[i + 1]))

\* The back substitution loop from row i down to the first.
RECURSIVE BackSubstitute(_, _, _)
BackSubstitute(cp, x, i) ==
    IF i < 1 THEN x
    ELSE BackSubstitute(cp, [x EXCEPT ![i] = BackStep(cp, x, i)], i - 1)

TriDiagonal(m, d) ==
    LET n == Len(m) IN
    IF BadSizes(m, d) THEN Panic("bad sizes rows(m) != rows(d)")
    ELSE IF n = 0 THEN IndexOutOfRange
    ELSE IF BadValues(m) THEN Panic("bad values for tridiagonal matrix")
    ELSE IF FirstDiagIsZero(m) THEN Panic("m[0].Y == 0")
    ELSE LET e == Eliminate(m, d, 2,
                      <<RDiv(Rat(m[1].Z), Rat(m[1].Y))>>,
                      <<RDiv(Rat(d[1]), Rat(m[1].Y))>>)
         IN  IF e.failed THEN Panic("denom == 0")
             ELSE Returned(BackSubstitute(e.cp, e.x, n - 1))

----------------------------------------------------------------------------
(* CubicSpline2D: the tridiagonal systems of the knot derivatives, one per *)
(* axis, and the cubic polynomials built from their solutions.  The        *)
(* bounding box that the constructor caches in s.bb comes from quadratic,  *)
(* which is not part of this source, and is a field no segment depends on: *)
(* the outcome modelled here is s.spline.                                  *)

MaxKnots == 4                \* the largest knot count tried
CoordVals == {-1, 0, 2}      \* values of a knot coordinate

V2 == [X : CoordVals, Y : CoordVals]

\* p.a = y0; p.b = D0; p.c = 3*(y1-y0) - 2*D0 - D1; p.d = 2*(y0-y1) + D0 + D1
Set_DerivativesSwapped(y0, y1, D0, D1) ==
    [a |-> y0,
     b |-> D0,
     c |-> RSub(RSub(RMul(Rat(3), RSub(y1, y0)), RMul(Rat(2), D1)), D0),
     d |-> RAdd(RAdd(RMul(Rat(2), RSub(y0, y1)), D0), D1)]

Set(y0, y1, D0, D1) ==
    [a |-> y0,
     b |-> D0,
     c |-> RSub(RSub(RMul(Rat(3), RSub(y1, y0)), RMul(Rat(2), D0)), D1),
     d |-> RAdd(RAdd(RMul(Rat(2), RSub(y0, y1)), D0), D1)]

\* return 2*p.c + 6*p.d*t
f2(p, t) == RAdd(RMul(Rat(2), p.c), RMul(RMul(Rat(6), p.d), t))

\* m: V3{1, 4, 1} for 0 < i < n-1, then m[0] = V3{0, 2, 1}, then
\* m[n-1] = V3{1, 2, 0}; the last assignment to a row is the one that stays.
SplineRows(n) ==
    [i \in 1..n |-> IF i = n THEN [X |-> 1, Y |-> 2, Z |-> 0]
                    ELSE IF i = 1 THEN [X |-> 0, Y |-> 2, Z |-> 1]
                    ELSE [X |-> 1, Y |-> 4, Z |-> 1]]

\* dx (or dy) for the coordinates k of one axis: 3 * (k[i+1] - k[i-1]) inside,
\* 3 * (k[1] - k[0]) and 3 * (k[n-1] - k[n-2]) at the ends.
SplineRhs(k) ==
    LET n == Len(k) IN
    [i \in 1..n |-> IF i = n THEN 3 * (k[n] - k[n - 1])
                    ELSE IF i = 1 THEN 3 * (k[2] - k[1])
                    ELSE 3 * (k[i + 1] - k[i - 1])]

\* s.spline[i], from the knots and the solved first derivatives
CubicSpline(kn, xx, xy, i) ==
    [idx |-> i - 1,
     p0  |-> kn[i],
     p1  |-> kn[i + 1],
     px  |-> Set(Rat(kn[i].X), Rat(kn[i + 1].X), xx[i], xx[i + 1]),
     py  |-> Set(Rat(kn[i].Y), Rat(kn[i + 1].Y), xy[i], xy[i + 1])]

Fitted(spline) == [status |-> "ok", spline |-> spline]

CubicSpline2D(kn) ==
    LET n == Len(kn) IN
    IF n < 2 THEN Panic("cubic splines at least 2 knots")
    ELSE LET m  == SplineRows(n)
             xx == TriDiagonal(m, SplineRhs([i \in 1..n |-> kn[i].X]))
             xy == TriDiagonal(m, SplineRhs([i \in 1..n |-> kn[i].Y]))
         IN  IF xx.status # "ok" THEN xx
             ELSE IF xy.status # "ok" THEN xy
             ELSE Fitted([i \in 1..(n - 1) |-> CubicSpline(kn, xx.x, xy.x, i)])

----------------------------------------------------------------------------
(* renderer3.Render.  The call runs on the caller's goroutine (pc); the    *)
(* workers, the producer and the closer of jobResults run beside it.  Both *)
(* channels are unbuffered, so a send and its receive are one step.        *)

pixelBatch == 100            \* const pixelBatch = 100
maxSteps == 1000             \* const maxSteps = 1000

MaxCPU == 2                  \* the largest runtime.NumCPU() tried
MaxPasses == 2               \* calls of Render on one renderer
MaxMutations == 1            \* camera changes by the caller

\* The resolutions tried: below one batch, exactly one batch, past one batch.
\* The large ones are rendered by the first call on the one-CPU machine only.
SmallSizes == {<<0, 0>>, <<2, 1>>, <<1, 2>>, <<2, 2>>}
LargeSizes == {<<10, 10>>, <<17, 6>>}
SizesFor(cpus, calls) ==
    IF cpus = 1 /\ calls = 0 THEN SmallSizes \cup LargeSizes ELSE SmallSizes

\* color.RGBA{R, G, B, A}
RGBA(r, g, b, a) == <<r, g, b, a>>

\* image.NewRGBA: every byte of Pix is zero.
NewRGBA(size) == [i \in 1..(size[1] * size[2]) |-> RGBA(0, 0, 0, 0)]

\* The orders rand.Shuffle is let to produce for n pixels: two below a
\* batch, one from a batch on.
Reversed(n) == [i \in 1..n |-> n - i]
Rotated(n) == [i \in 1..n |-> i % n]
Shuffles(n) == IF n < pixelBatch THEN {Reversed(n), Rotated(n)} ELSE {Reversed(n)}

\* The camera before the caller touches it, and what the caller sets.
DefaultState ==
    [CamCenter |-> 0, CamPitch |-> 0, CamYaw |-> 0, CamDist |-> 1, CamFOV |-> 90]

\* Opt3Cam(camCenter, pitch, yaw, dist), applied to the state.
Opt3Cam(st, camCenter, pitch, yaw, dist) ==
    [st EXCEPT !.CamCenter = camCenter, !.CamPitch = pitch,
               !.CamYaw = yaw, !.CamDist = dist]

\* Opt3CamFov(fov), applied to the state.
Opt3CamFov(st, fov) == [st EXCEPT !.CamFOV = fov]

\* state.Cam3MatrixNoTranslation(): the rotation, a function of pitch and yaw.
Cam3MatrixNoTranslation(st) == <<st.CamPitch, st.CamYaw>>

\* state.CamCenter.Add(camViewMatrix.MulPosition(sdf.V3{Y: -state.CamDist}))
CamPos(st, viewMatrix) ==
    [center |-> st.CamCenter, rot |-> viewMatrix, dist |-> st.CamDist]

\* state.CamCenter.Sub(camPos).Normalize()
CamDir(st, camPos) == [center |-> st.CamCenter, from |-> camPos]

\* 2 * math.Atan(math.Tan(camFovX/2)*aspectRatio)
CamFovY(camFovX, size) == <<camFovX, size>>

NoCam == [viewMatrix |-> <<>>, pos |-> <<>>, dir |-> <<>>, fovX |-> -1]

NoJob == <<>>

\* sampledPixel := sdf.V2i{randPixelIndex % boundsSize[0], randPixelIndex / boundsSize[0]}
SampledPixel_ByHeight(randPixelIndex, size) ==
    <<randPixelIndex % size[2], randPixelIndex \div size[2]>>

SampledPixel(randPixelIndex, size) ==
    <<randPixelIndex % size[1], randPixelIndex \div size[1]>>

\* &pixelRender{...}, as the producer builds it
PixelRender(randPixelIndex, size, c) ==
    [pixel         |-> SampledPixel(randPixelIndex, size),
     bounds        |-> size,
     camPos        |-> c.pos,
     camDir        |-> c.dir,
     camViewMatrix |-> c.viewMatrix,
     camFov        |-> <<c.fovX, CamFovY(c.fovX, size)>>,
     rendered      |-> RGBA(0, 0, 0, 0)]

\* sdf.Raycast3(r.s, rayFrom, rayDir, 0, 0.1, 1e-4, maxRay, maxSteps): the
\* travelled distance t (negative on a miss) and the steps taken, a fixed
\* function of the pixel and the camera the job carries.
Raycast3(job) ==
    LET k == (job.pixel[1] + 2 * job.pixel[2] + job.camPos.center
              + job.camPos.dist + job.camDir.center + job.camViewMatrix[1]
              + job.camFov[1]) % 3
    IN  [t |-> IF k = 0 THEN 1 ELSE -1,
         steps |-> IF k = 1 THEN maxSteps ELSE 7]

samplePixel(job) ==
    LET ray == Raycast3(job) IN
    IF ray.t >= 0 THEN RGBA(0, 0, 255, 255)
    ELSE IF ray.steps = maxSteps THEN RGBA(150, 50, 50, 255)
    ELSE RGBA(150, 50, 50, 255)

\* fullRender.Pix[i] = 255 for the alpha byte of a pixel
InitialPixel(c) == RGBA(c[1], c[2], c[3], 255)

\* (p *RGBA) SetRGBA(x, y, c): nothing outside the rectangle.
InRect(x, y, size) == 0 <= x /\ x < size[1] /\ 0 <= y /\ y < size[2]

PixOffset(x, y, size) == y * size[1] + x + 1

SetRGBA(img, x, y, c, size) ==
    IF InRect(x, y, size) THEN [img EXCEPT ![PixOffset(x, y, size)] = c] ELSE img

\* if pixelCount != len(r.pixelsRand)
NeedsShuffle_OnGrowth(pixelCount, rand) == pixelCount > Len(rand)

NeedsShuffle(pixelCount, rand) == pixelCount # Len(rand)

\* if pixelNum%pixelBatch == 0
BatchEnd(n) == n % pixelBatch = 0

\* case <-ctx.Done()
Cancelled_Ignored(done) == FALSE

Cancelled(done) == done

\* cachedRenderLock.Lock(), once it is granted
Lock_Skipped(holder) == holder

Lock(holder) == "render"

PixelCount == bounds[1] * bounds[2]

Workers == DOMAIN worker

\* workerWg.Wait() returns: every worker has called workerWg.Done().
WorkerWgWait_FirstDone(wk) == \E w \in DOMAIN wk : wk[w].pc = "done"

WorkerWgWait(wk) == \A w \in DOMAIN wk : wk[w].pc = "done"

\* A goroutine of the call still has a step it can take.
TasksCanMove ==
    \/ /\ producer.pc = "loop"
       /\ \/ producer.i = Len(pixelsRand)
          \/ \E w \in Workers : worker[w].pc = "recv"
    \/ \E w \in Workers : worker[w].pc = "recv" /\ jobsClosed
    \/ \E w \in Workers : worker[w].pc = "send" /\ pc = "range"
    \/ closer = "wait" /\ WorkerWgWait(worker)

TasksTerminated ==
    /\ producer.pc \in {"none", "done"}
    /\ closer \in {"none", "done"}
    /\ \A w \in Workers : worker[w].pc = "done"

----------------------------------------------------------------------------
(* The state before the first call.                                        *)

RenderInit(cpus) ==
    /\ pixelsRand = <<>>
    /\ state = DefaultState
    /\ stateLock = "free"
    /\ cachedRenderLock = "free"
    /\ numCPU = cpus
    /\ bounds = <<0, 0>>
    /\ fullRender = <<>>
    /\ partialRender = "nil"
    /\ ctxDone = FALSE
    /\ pc = "idle"
    /\ cam = NoCam
    /\ producer = [pc |-> "none", i |-> 0]
    /\ worker = <<>>
    /\ closer = "none"
    /\ jobsClosed = FALSE
    /\ jobResultsClosed = FALSE
    /\ pixelNum = 0
    /\ err = "nil"
    /\ written = <<>>
    /\ cancelAt = -1
    /\ oldRand = <<>>
    /\ oldBounds = <<0, 0>>
    /\ shuffled = FALSE
    /\ passes = 0
    /\ mutations = 0

----------------------------------------------------------------------------
(* The caller and the other users of the two locks.                        *)

\* r.impl.Render(ctx, state, stateLock, cachedRenderLock, partialRender,
\* fullRender): a fresh context, a sink or none, a new image.  The
\* goroutines of the previous call have settled.
CallRender(size, sink) ==
    /\ pc \in {"idle", "returned"}
    /\ passes < MaxPasses
    /\ ~TasksCanMove
    /\ bounds' = size
    /\ fullRender' = NewRGBA(size)
    /\ partialRender' = sink
    /\ ctxDone' = FALSE
    /\ pc' = "init"
    /\ cam' = NoCam
    /\ producer' = [pc |-> "none", i |-> 0]
    /\ worker' = <<>>
    /\ closer' = "none"
    /\ jobsClosed' = FALSE
    /\ jobResultsClosed' = FALSE
    /\ pixelNum' = 0
    /\ err' = "nil"
    /\ written' = [i \in 1..(size[1] * size[2]) |-> 0]
    /\ cancelAt' = -1
    /\ oldRand' = pixelsRand
    /\ oldBounds' = bounds
    /\ shuffled' = FALSE
    /\ passes' = passes + 1
    /\ UNCHANGED <<numVars, rendererVars, mutations>>

\* cancel() of the context of the running call
Cancel ==
    /\ pc \notin {"idle", "returned", "panicked"}
    /\ ~ctxDone
    /\ ctxDone' = TRUE
    /\ cancelAt' = pixelNum
    /\ UNCHANGED <<numVars, rendererVars, bounds, fullRender, partialRender,
                   localVars, written, oldRand, oldBounds, shuffled, passes,
                   mutations>>

\* The caller changes the camera under stateLock: stateLock.Lock(), then
\* the options Opt3Cam and Opt3CamFov.  A change made after the call has
\* read the camera is the same change made before the next call, so it is
\* left to happen then; a call at a large size is not disturbed.
CallerSetCamera ==
    /\ stateLock = "free"
    /\ mutations < MaxMutations
    /\ \/ pc \in {"idle", "returned"}
       \/ /\ pc \in {"init", "perm", "spawn", "cam98", "cam99", "cam100", "cam101"}
          /\ bounds \in SmallSizes
    /\ stateLock' = "caller"
    /\ state' = Opt3CamFov(Opt3Cam(state, 1, 1, 1, 2), 60)
    /\ mutations' = mutations + 1
    /\ UNCHANGED <<numVars, pixelsRand, cachedRenderLock, numCPU, argVars,
                   localVars, written, cancelAt, oldRand, oldBounds, shuffled,
                   passes>>

\* stateLock.Unlock() by the caller
CallerUnlock ==
    /\ stateLock = "caller"
    /\ stateLock' = "free"
    /\ UNCHANGED <<numVars, pixelsRand, state, cachedRenderLock, numCPU,
                   argVars, localVars, historyVars>>

\* The display reads the cached render under cachedRenderLock.RLock().
DisplayRLock ==
    /\ cachedRenderLock = "free"
    /\ cachedRenderLock' = "display"
    /\ UNCHANGED <<numVars, pixelsRand, state, stateLock, numCPU, argVars,
                   localVars, historyVars>>

DisplayRUnlock ==
    /\ cachedRenderLock = "display"
    /\ cachedRenderLock' = "free"
    /\ UNCHANGED <<numVars, pixelsRand, state, stateLock, numCPU, argVars,
                   localVars, historyVars>>

----------------------------------------------------------------------------
(* The steps of Render on the caller's goroutine.                          *)

\* What no step of Render or of its goroutines changes.
fixedVars == <<numVars, state, stateLock, numCPU, bounds, ctxDone, cancelAt,
               oldRand, oldBounds, passes, mutations>>

\* for i := 3; i < len(fullRender.Pix); i += 4 { fullRender.Pix[i] = 255 }
InitRaster ==
    /\ pc = "init"
    /\ fullRender' = [i \in DOMAIN fullRender |-> InitialPixel(fullRender[i])]
    /\ pc' = "perm"
    /\ UNCHANGED <<fixedVars, pixelsRand, cachedRenderLock, partialRender, cam,
                   producer, worker, closer, jobsClosed, jobResultsClosed,
                   pixelNum, err, written, shuffled>>

\* Update random pixels if needed
UpdatePixelsRand ==
    /\ pc = "perm"
    /\ IF NeedsShuffle(PixelCount, pixelsRand)
       THEN /\ pixelsRand' \in Shuffles(PixelCount)
            /\ shuffled' = TRUE
       ELSE /\ pixelsRand' = pixelsRand
            /\ shuffled' = FALSE
    /\ pc' = "spawn"
    /\ UNCHANGED <<fixedVars, cachedRenderLock, fullRender, partialRender, cam,
                   producer, worker, closer, jobsClosed, jobResultsClosed,
                   pixelNum, err, written>>

\* Spawn the workers, and the goroutine that waits for them
SpawnWorkers ==
    /\ pc = "spawn"
    /\ worker' = [w \in 1..numCPU |-> [pc |-> "recv", job |-> NoJob]]
    /\ closer' = "wait"
    /\ pc' = "cam98"
    /\ UNCHANGED <<fixedVars, pixelsRand, cachedRenderLock, fullRender,
                   partialRender, cam, producer, jobsClosed, jobResultsClosed,
                   pixelNum, err, written, shuffled>>

\* camViewMatrix := state.Cam3MatrixNoTranslation()
ReadCamViewMatrix ==
    /\ pc = "cam98"
    /\ cam' = [cam EXCEPT !.viewMatrix = Cam3MatrixNoTranslation(state)]
    /\ pc' = "cam99"
    /\ UNCHANGED <<fixedVars, pixelsRand, cachedRenderLock, fullRender,
                   partialRender, producer, worker, closer, jobsClosed,
                   jobResultsClosed, pixelNum, err, written, shuffled>>

\* camPos := state.CamCenter.Add(...)
ReadCamPos ==
    /\ pc = "cam99"
    /\ cam' = [cam EXCEPT !.pos = CamPos(state, cam.viewMatrix)]
    /\ pc' = "cam100"
    /\ UNCHANGED <<fixedVars, pixelsRand, cachedRenderLock, fullRender,
                   partialRender, producer, worker, closer, jobsClosed,
                   jobResultsClosed, pixelNum, err, written, shuffled>>

\* camDir := state.CamCenter.Sub(camPos).Normalize()
ReadCamDir ==
    /\ pc = "cam100"
    /\ cam' = [cam EXCEPT !.dir = CamDir(state, cam.pos)]
    /\ pc' = "cam101"
    /\ UNCHANGED <<fixedVars, pixelsRand, cachedRenderLock, fullRender,
                   partialRender, producer, worker, closer, jobsClosed,
                   jobResultsClosed, pixelNum, err, written, shuffled>>

\* camFovX := state.CamFOV, then: Spawn the work generator
ReadCamFovAndSpawnProducer ==
    /\ pc = "cam101"
    /\ cam' = [cam EXCEPT !.fovX = state.CamFOV]
    /\ producer' = [pc |-> "loop", i |-> 0]
    /\ pc' = "lock128"
    /\ UNCHANGED <<fixedVars, pixelsRand, cachedRenderLock, fullRender,
                   partialRender, worker, closer, jobsClosed, jobResultsClosed,
                   pixelNum, err, written, shuffled>>

\* cachedRenderLock.Lock(), before the loop and at the end of a batch
LockCachedRender ==
    /\ pc \in {"lock128", "lock154"}
    /\ cachedRenderLock = "free"
    /\ cachedRenderLock' = Lock(cachedRenderLock)
    /\ pc' = "range"
    /\ UNCHANGED <<fixedVars, pixelsRand, fullRender, partialRender, cam,
                   producer, worker, closer, jobsClosed, jobResultsClosed,
                   pixelNum, err, written, shuffled>>

\* for renderedPixel := range jobResults { SetRGBA; pixelNum++ }: the
\* receive is worker w's send.
ReceiveResult(w) ==
    /\ pc = "range"
    /\ worker[w].pc = "send"
    /\ LET job == worker[w].job
           x == job.pixel[1]
           y == job.pixel[2]
       IN  /\ fullRender' = SetRGBA(fullRender, x, y, job.rendered, bounds)
           /\ written' = IF InRect(x, y, bounds)
                         THEN [written EXCEPT ![PixOffset(x, y, bounds)] = @ + 1]
                         ELSE written
    /\ pixelNum' = pixelNum + 1
    /\ pc' = IF BatchEnd(pixelNum + 1) THEN "unlock135" ELSE "range"
    /\ worker' = [worker EXCEPT ![w] = [pc |-> "recv", job |-> NoJob]]
    /\ UNCHANGED <<fixedVars, pixelsRand, cachedRenderLock, partialRender, cam,
                   producer, closer, jobsClosed, jobResultsClosed, err, shuffled>>

\* The range loop ends: jobResults is closed (and so drained).
LoopEnd ==
    /\ pc = "range"
    /\ jobResultsClosed
    /\ pc' = "after157"
    /\ UNCHANGED <<fixedVars, pixelsRand, cachedRenderLock, fullRender,
                   partialRender, cam, producer, worker, closer, jobsClosed,
                   jobResultsClosed, pixelNum, err, written, shuffled>>

\* cachedRenderLock.Unlock() at the end of a batch; unlocking a lock that is
\* not held is a fatal error of the runtime.
UnlockBatch ==
    /\ pc = "unlock135"
    /\ IF cachedRenderLock = "render"
       THEN cachedRenderLock' = "free" /\ pc' = "select138"
       ELSE cachedRenderLock' = cachedRenderLock /\ pc' = "panicked"
    /\ UNCHANGED <<fixedVars, pixelsRand, fullRender, partialRender, cam,
                   producer, worker, closer, jobsClosed, jobResultsClosed,
                   pixelNum, err, written, shuffled>>

\* select { case <-ctx.Done(): err = ctx.Err(); break pixelLoop; default: }
CheckCancelled ==
    /\ pc = "select138"
    /\ IF Cancelled(ctxDone)
       THEN err' = "context canceled" /\ pc' = "after157"
       ELSE err' = err /\ pc' = IF partialRender # "nil" THEN "send151"
                                                          ELSE "lock154"
    /\ UNCHANGED <<fixedVars, pixelsRand, cachedRenderLock, fullRender,
                   partialRender, cam, producer, worker, closer, jobsClosed,
                   jobResultsClosed, pixelNum, written, shuffled>>

\* partialRender <- fullRender: the step is the consumer's receive.
SendPartialRender ==
    /\ pc = "send151"
    /\ partialRender = "open"
    /\ pc' = "lock154"
    /\ UNCHANGED <<fixedVars, pixelsRand, cachedRenderLock, fullRender,
                   partialRender, cam, producer, worker, closer, jobsClosed,
                   jobResultsClosed, pixelNum, err, written, shuffled>>

\* if err == nil { cachedRenderLock.Unlock() }
UnlockAtEnd ==
    /\ pc = "after157"
    /\ IF err = "nil"
       THEN IF cachedRenderLock = "render"
            THEN cachedRenderLock' = "free" /\ pc' = "close160"
            ELSE cachedRenderLock' = cachedRenderLock /\ pc' = "panicked"
       ELSE cachedRenderLock' = cachedRenderLock /\ pc' = "close160"
    /\ UNCHANGED <<fixedVars, pixelsRand, fullRender, partialRender, cam,
                   producer, worker, closer, jobsClosed, jobResultsClosed,
                   pixelNum, err, written, shuffled>>

\* close(partialRender); return err.  Closing a nil channel panics.
CloseAndReturn ==
    /\ pc = "close160"
    /\ IF partialRender = "open"
       THEN partialRender' = "closed" /\ pc' = "returned"
       ELSE partialRender' = partialRender /\ pc' = "panicked"
    /\ UNCHANGED <<fixedVars, pixelsRand, cachedRenderLock, fullRender, cam,
                   producer, worker, closer, jobsClosed, jobResultsClosed,
                   pixelNum, err, written, shuffled>>

----------------------------------------------------------------------------
(* The goroutines of the call.                                             *)

goVars == <<fixedVars, pixelsRand, cachedRenderLock, fullRender,
            partialRender, pc, cam, pixelNum, err, written, shuffled>>

\* jobs <- &pixelRender{...} met by worker w's receive; the worker then
\* computes job.rendered = r.samplePixel(job).
SendJob(w) ==
    /\ producer.pc = "loop"
    /\ producer.i < Len(pixelsRand)
    /\ worker[w].pc = "recv"
    /\ LET job == PixelRender(pixelsRand[producer.i + 1], bounds, cam)
       IN  worker' = [worker EXCEPT
                ![w] = [pc |-> "send",
                        job |-> [job EXCEPT !.rendered = samplePixel(job)]]]
    /\ producer' = [producer EXCEPT !.i = @ + 1]
    /\ UNCHANGED <<goVars, closer, jobsClosed, jobResultsClosed>>

\* close(jobs)
CloseJobs_Forgotten ==
    /\ producer.pc = "loop"
    /\ producer.i = Len(pixelsRand)
    /\ producer' = [producer EXCEPT !.pc = "done"]
    /\ UNCHANGED <<goVars, worker, closer, jobsClosed, jobResultsClosed>>

CloseJobs ==
    /\ producer.pc = "loop"
    /\ producer.i = Len(pixelsRand)
    /\ jobsClosed' = TRUE
    /\ producer' = [producer EXCEPT !.pc = "done"]
    /\ UNCHANGED <<goVars, worker, closer, jobResultsClosed>>

\* range jobs ends: workerWg.Done()
WorkerDone(w) ==
    /\ worker[w].pc = "recv"
    /\ jobsClosed
    /\ worker' = [worker EXCEPT ![w] = [pc |-> "done", job |-> NoJob]]
    /\ UNCHANGED <<goVars, producer, closer, jobsClosed, jobResultsClosed>>

\* workerWg.Wait(); close(jobResults)
CloseJobResults ==
    /\ closer = "wait"
    /\ WorkerWgWait(worker)
    /\ jobResultsClosed' = TRUE
    /\ closer' = "done"
    /\ UNCHANGED <<goVars, producer, worker, jobsClosed>>

----------------------------------------------------------------------------
(* The renderer's specification.                                           *)

Init ==
    /\ \E cpus \in 1..MaxCPU : RenderInit(cpus)
    /\ triM = <<>>
    /\ triD = <<>>
    /\ triRes = NotCalled
    /\ knot = <<>>
    /\ splineRes = NotCalled

Next ==
    \/ \E size \in SizesFor(numCPU, passes), sink \in {"nil", "open"} :
           CallRender(size, sink)
    \/ Cancel
    \/ CallerSetCamera
    \/ CallerUnlock
    \/ DisplayRLock
    \/ DisplayRUnlock
    \/ InitRaster
    \/ UpdatePixelsRand
    \/ SpawnWorkers
    \/ ReadCamViewMatrix
    \/ ReadCamPos
    \/ ReadCamDir
    \/ ReadCamFovAndSpawnProducer
    \/ LockCachedRender
    \/ \E w \in Workers : ReceiveResult(w)
    \/ LoopEnd
    \/ UnlockBatch
    \/ CheckCancelled
    \/ SendPartialRender
    \/ UnlockAtEnd
    \/ CloseAndReturn
    \/ \E w \in Workers : SendJob(w)
    \/ CloseJobs
    \/ \E w \in Workers : WorkerDone(w)
    \/ CloseJobResults

Spec == Init /\ [][Next]_vars

\* The steps of Render's own goroutine that wait for nobody.
RenderStep ==
    \/ InitRaster
    \/ UpdatePixelsRand
    \/ SpawnWorkers
    \/ ReadCamViewMatrix
    \/ ReadCamPos
    \/ ReadCamDir
    \/ ReadCamFovAndSpawnProducer
    \/ \E w \in Workers : ReceiveResult(w)
    \/ LoopEnd
    \/ UnlockBatch
    \/ CheckCancelled
    \/ UnlockAtEnd
    \/ CloseAndReturn

\* The Go scheduler runs every goroutine that can take a step: Render's
\* own, the producer, each worker and the closer of jobResults.  The
\* display gives back the lock it took, and a Lock that is waiting is
\* granted although the display takes the lock again and again (a pending
\* Lock of a sync.RWMutex keeps new readers out).  The consumer of the sink
\* receives what is sent to it.  Nothing makes the caller call, cancel or
\* move the camera.
Fairness ==
    /\ WF_vars(RenderStep)
    /\ WF_vars(\E w \in Workers : SendJob(w))
    /\ WF_vars(CloseJobs)
    /\ \A w \in 1..MaxCPU : WF_vars(w \in Workers /\ WorkerDone(w))
    /\ WF_vars(CloseJobResults)
    /\ WF_vars(DisplayRUnlock)
    /\ SF_vars(LockCachedRender)
    /\ WF_vars(SendPartialRender)

\* The calls of the liveness claim: the caller gives every call a sink and
\* never cancels.  Every resolution is tried as the first call at every
\* number of workers.
SizesOfCall(calls) ==
    IF calls = 0 THEN SmallSizes \cup LargeSizes ELSE SmallSizes

NextUncancelled ==
    \/ \E size \in SizesOfCall(passes) : CallRender(size, "open")
    \/ CallerSetCamera
    \/ CallerUnlock
    \/ DisplayRLock
    \/ DisplayRUnlock
    \/ RenderStep
    \/ LockCachedRender
    \/ SendPartialRender
    \/ \E w \in Workers : SendJob(w)
    \/ CloseJobs
    \/ \E w \in Workers : WorkerDone(w)
    \/ CloseJobResults

FairSpec == Init /\ [][NextUncancelled]_vars /\ Fairness

----------------------------------------------------------------------------
(* The solver's specification: any bounded input, then the call.           *)

InitTri ==
    /\ RenderInit(1)
    /\ triM \in SeqsUpTo(V3, MaxN)
    /\ triD \in SeqsUpTo(RhsVals, MaxN)
    /\ triRes = NotCalled
    /\ knot = <<>>
    /\ splineRes = NotCalled

CallTriDiagonal ==
    /\ triRes = NotCalled
    /\ triRes' = TriDiagonal(triM, triD)
    /\ UNCHANGED <<triM, triD>>
    /\ UNCHANGED <<splineVars, renderVars>>

NextTri == CallTriDiagonal

SpecTri == InitTri /\ [][NextTri]_vars

----------------------------------------------------------------------------
(* The spline fitter's specification: any bounded knots, then the call.    *)

InitSpline ==
    /\ RenderInit(1)
    /\ triM = <<>>
    /\ triD = <<>>
    /\ triRes = NotCalled
    /\ knot \in SeqsUpTo(V2, MaxKnots)
    /\ splineRes = NotCalled

CallCubicSpline2D ==
    /\ splineRes = NotCalled
    /\ splineRes' = CubicSpline2D(knot)
    /\ UNCHANGED knot
    /\ UNCHANGED <<triVars, renderVars>>

NextSpline == CallCubicSpline2D

SpecSpline == InitSpline /\ [][NextSpline]_vars

----------------------------------------------------------------------------
(* The renderer's claims.                                                  *)

HasReturned == pc = "returned"

Canceled == err = "context canceled"

\* The pose read from one camera state st, as the call would compute it.
PoseOf(st) ==
    LET m == Cam3MatrixNoTranslation(st)
        p == CamPos(st, m)
    IN  [viewMatrix |-> m, pos |-> p, dir |-> CamDir(st, p), fovX |-> st.CamFOV]

\* The camera states the caller has ever set.
CameraStates == {DefaultState, Opt3CamFov(Opt3Cam(DefaultState, 1, 1, 1, 2), 60)}

\* The colour the claim expects at row-major pixel p: samplePixel of the job
\* for that coordinate under the camera the call captured.
ExpectedColour(p) ==
    samplePixel([pixel         |-> <<(p - 1) % bounds[1], (p - 1) \div bounds[1]>>,
                 bounds        |-> bounds,
                 camPos        |-> cam.pos,
                 camDir        |-> cam.dir,
                 camViewMatrix |-> cam.viewMatrix,
                 camFov        |-> <<cam.fovX, CamFovY(cam.fovX, bounds)>>,
                 rendered      |-> RGBA(0, 0, 0, 0)])

IsPermutation(rand, n) ==
    /\ Len(rand) = n
    /\ {rand[i] : i \in 1..n} = 0..(n - 1)

\* C1: once Render has returned the cancellation outcome, no goroutine of the
\* call is blocked for good: each worker, the producer and the closer of
\* jobResults has terminated or still has a step it can take.
C1_NoLeakedTask ==
    (HasReturned /\ Canceled) => (TasksTerminated \/ TasksCanMove)

C3_ReturnsWithResourcesReleased ==
    (pc \in {"returned", "panicked"})
        => (HasReturned /\ cachedRenderLock # "render" /\ partialRender # "open")

\* C4: no pixel is written twice in any call, and when a call's loop has
\* ended without cancellation every pixel was written exactly once and holds
\* the colour samplePixel gives for its coordinate, whatever the earlier
\* calls, the order of the results and the number of workers were.
C4_EveryPixelWrittenOnce ==
    /\ \A p \in DOMAIN written : written[p] <= 1
    /\ (pc \in {"after157", "close160", "returned"} /\ ~Canceled)
           => /\ DOMAIN fullRender = 1..PixelCount
              /\ \A p \in 1..PixelCount :
                     written[p] = 1 /\ fullRender[p] = ExpectedColour(p)

\* The second call on a two-CPU machine, at a resolution that differs from
\* the first call's but has its pixel count, completed with an image of two
\* colours.
C4_Witness ==
    /\ HasReturned /\ ~Canceled
    /\ passes = 2 /\ numCPU = 2
    /\ bounds = <<1, 2>> /\ oldBounds = <<2, 1>>
    /\ fullRender[1] # fullRender[2]

\* C5, as stated: the call holds cachedRenderLock whenever it is about to
\* initialize the raster, to write a pixel or to publish a snapshot.
C5_LockHeldForInitWritesAndSnapshots ==
    pc \in {"init", "range", "send151"} => cachedRenderLock = "render"

\* C5, amended: the call holds cachedRenderLock exactly from the Lock before
\* the loop to the Unlock at a batch end, and from the Lock after a snapshot
\* to the next batch end or the final Unlock: at every pixel write, but
\* neither while it initializes the raster nor while it checks for
\* cancellation and publishes a snapshot.
C5_LockHeldExactlyForWrites ==
    (cachedRenderLock = "render")
        <=> (pc \in {"range", "unlock135"} \/ (pc = "after157" /\ ~Canceled))

\* The display holds the lock while the call publishes its first snapshot.
C5_Witness ==
    /\ pc = "send151"
    /\ pixelNum = pixelBatch
    /\ cachedRenderLock = "display"

C7_JobsCarryOneConsistentPose ==
    \A w \in Workers :
        worker[w].job # NoJob
            => \E st \in CameraStates :
                   /\ worker[w].job.camViewMatrix = PoseOf(st).viewMatrix
                   /\ worker[w].job.camPos = PoseOf(st).pos
                   /\ worker[w].job.camDir = PoseOf(st).dir
                   /\ worker[w].job.camFov[1] = PoseOf(st).fovX

\* C8: once the raster is initialized, every pixel that the call has not
\* written yet is fully transparent (alpha 0).
C8_UnwrittenPixelsTransparent ==
    pc \notin {"idle", "init"}
        => \A p \in DOMAIN fullRender : written[p] = 0 => fullRender[p][4] = 0

\* C12: in every call jobResults is closed only after the producer has
\* closed jobs and every worker has finished its last pixel and left its
\* loop, so no worker is ever sending on the closed channel; and the
\* collector's loop ends normally only when jobResults is closed and the
\* result of every job the producer enqueued, one per pixel, was delivered.
C12_ResultsClosedAfterPoolDrained ==
    /\ jobResultsClosed
           => /\ jobsClosed /\ producer.pc = "done"
              /\ \A w \in Workers :
                     worker[w].pc = "done" /\ worker[w].job = NoJob
    /\ (pc \in {"after157", "close160", "returned"} /\ ~Canceled)
           => /\ jobResultsClosed
              /\ producer.i = Len(pixelsRand)
              /\ pixelNum = producer.i

\* Two workers have drained a four-pixel call, jobResults is closed and the
\* collector's loop has ended normally.
C12_Witness ==
    /\ pc = "after157" /\ ~Canceled
    /\ numCPU = 2
    /\ jobResultsClosed
    /\ pixelNum = 4

\* The call has returned the normal outcome with every pixel written and
\* the producer, the workers and the closer of jobResults terminated.
CompletedNormally ==
    /\ HasReturned /\ ~Canceled
    /\ \A p \in 1..PixelCount : written[p] = 1
    /\ TasksTerminated

\* C13: under fair scheduling, a call of Render that is never cancelled,
\* whose sink is received from and that finds the raster lock available
\* again and again, eventually returns the normal outcome, for every pixel
\* count (zero and counts that are no multiple of 100 included) and every
\* number of workers; every pixel is then written and the producer and all
\* workers have terminated.
C13_UncancelledCallCompletes ==
    \A k \in 1..MaxPasses :
        (pc = "init" /\ passes = k /\ partialRender = "open" /\ ~ctxDone)
            ~> (passes = k /\ (ctxDone \/ CompletedNormally))

\* A call of 102 pixels, never cancelled, has sent its snapshot after the
\* first batch and returned the normal outcome with its goroutines gone.
C13_Witness ==
    /\ CompletedNormally
    /\ ~ctxDone
    /\ PixelCount > pixelBatch /\ PixelCount % pixelBatch # 0
    /\ partialRender = "closed"

----------------------------------------------------------------------------
(* The solver's claims, stated with their own reading of the system: the   *)
(* determinant and the forward-sweep denominators are recomputed here from *)
(* the textbook recurrences, not taken from TriDiagonal's intermediate     *)
(* values.                                                                 *)

\* The determinant of the leading k x k block (the continuant recurrence).
RECURSIVE Det(_, _)
Det(m, k) ==
    IF k = 0 THEN 1
    ELSE IF k = 1 THEN m[1].Y
    ELSE m[k].Y * Det(m, k - 1) - m[k].X * m[k - 1].Z * Det(m, k - 2)

\* c'[i] and the forward-sweep denominator of row i, as the spec writes them.
RECURSIVE CPrime(_, _)
CPrime(m, i) ==
    IF i = 1 THEN RDiv(Rat(m[1].Z), Rat(m[1].Y))
    ELSE RDiv(Rat(m[i].Z), RSub(Rat(m[i].Y), RMul(Rat(m[i].X), CPrime(m, i - 1))))

PivotDenom(m, i) == RSub(Rat(m[i].Y), RMul(Rat(m[i].X), CPrime(m, i - 1)))

\* Some forward-sweep denominator is zero (the earlier ones being defined).
ZeroPivot(m) == /\ m[1].Y # 0
                /\ \E i \in 2..Len(m) : PivotDenom(m, i) = Rat(0)

\* sub[i]*x[i-1] + diag[i]*x[i] + super[i]*x[i+1] = d[i]
RowHolds(m, d, x, i) ==
    LET lo == IF i > 1 THEN RMul(Rat(m[i].X), x[i - 1]) ELSE Rat(0)
        hi == IF i < Len(m) THEN RMul(Rat(m[i].Z), x[i + 1]) ELSE Rat(0)
    IN  RAdd(RAdd(lo, RMul(Rat(m[i].Y), x[i])), hi) = Rat(d[i])

Solves(m, d, res) ==
    /\ res.status = "ok"
    /\ Len(res.x) = Len(m)
    /\ \A i \in 1..Len(m) : RowHolds(m, d, res.x, i)

WellFormed(m, d) ==
    /\ Len(m) >= 1
    /\ Len(d) = Len(m)
    /\ m[1].X = 0
    /\ m[Len(m)].Z = 0

DocumentedPanics ==
    {"bad sizes rows(m) != rows(d)", "bad values for tridiagonal matrix",
     "m[0].Y == 0", "denom == 0"}

\* C9, as stated: for every tridiagonal system of N rows with sub[0] = 0 and
\* super[N-1] = 0 that has a unique solution (a nonzero determinant),
\* TriDiagonal returns an N-length x that satisfies every row equation.
C9_UniqueSolutionIsSolved ==
    (triRes # NotCalled /\ WellFormed(triM, triD) /\ Det(triM, Len(triM)) # 0)
        => Solves(triM, triD, triRes)

\* C9, amended: for every tridiagonal system of N >= 1 rows with sub[0] = 0
\* and super[N-1] = 0 whose diag[0] and forward-sweep denominators are all
\* nonzero, TriDiagonal returns an N-length x that satisfies every row
\* equation exactly.
C9_NonzeroPivotsAreSolved ==
    (/\ triRes # NotCalled
     /\ WellFormed(triM, triD)
     /\ triM[1].Y # 0
     /\ ~ZeroPivot(triM))
        => Solves(triM, triD, triRes)

\* A full 3-row system, every off-diagonal entry in use, solved with a
\* solution that is not all integers.
C9_Witness ==
    /\ triRes.status = "ok"
    /\ Len(triM) = 3
    /\ triM[1].Z = 1 /\ triM[2].X = 1 /\ triM[2].Z = 1 /\ triM[3].X = 1
    /\ \E i \in 1..3 : triRes.x[i][2] > 1

\* C10: TriDiagonal ends in one of its documented panics, and returns no
\* value, whenever the row count differs from the right-hand side's length,
\* sub[0] # 0, super[N-1] # 0, diag[0] = 0 or a forward-sweep denominator is
\* zero, for every row count N >= 0.
C10_BadInputPanics ==
    (/\ triRes # NotCalled
     /\ \/ Len(triD) # Len(triM)
        \/ /\ Len(triM) >= 1
           /\ \/ triM[1].X # 0
              \/ triM[Len(triM)].Z # 0
              \/ triM[1].Y = 0
              \/ ZeroPivot(triM))
        => (triRes.status = "panic" /\ triRes.msg \in DocumentedPanics)

\* A 3-row system that passes every sanity check and meets its first zero
\* denominator in the last row.
C10_Witness ==
    /\ triRes = Panic("denom == 0")
    /\ Len(triM) = 3
    /\ PivotDenom(triM, 2) # Rat(0)
    /\ PivotDenom(triM, 3) = Rat(0)

----------------------------------------------------------------------------
(* The spline fitter's claims.                                             *)

\* The second derivative of segment i of the fitted curve at local t, on
\* both axes.
SecondDerivative(spline, i, t) == <<f2(spline[i].px, t), f2(spline[i].py, t)>>

\* C11: for every sequence of N >= 2 knots (N = 2 and repeated knots
\* included) CubicSpline2D succeeds with N - 1 segments, and on each axis the
\* second derivative of the fitted curve is continuous at every interior
\* knot (segment i at t = 1 equals segment i+1 at t = 0) and is zero at the
\* first segment's t = 0 and at the last segment's t = 1.
C11_SecondDerivativeContinuousAndNatural ==
    (splineRes # NotCalled /\ Len(knot) >= 2)
        => /\ splineRes.status = "ok"
           /\ Len(splineRes.spline) = Len(knot) - 1
           /\ LET s == splineRes.spline
                  last == Len(knot) - 1
              IN  /\ \A i \in 1..(last - 1) :
                         SecondDerivative(s, i, Rat(1))
                             = SecondDerivative(s, i + 1, Rat(0))
                  /\ SecondDerivative(s, 1, Rat(0)) = <<Rat(0), Rat(0)>>
                  /\ SecondDerivative(s, last, Rat(1)) = <<Rat(0), Rat(0)>>

\* A curve fitted through four knots, the two inner ones the same point,
\* whose second derivative at that knot is not zero on either axis and whose
\* solved derivatives are not all integers.
C11_Witness ==
    /\ splineRes # NotCalled
    /\ splineRes.status = "ok"
    /\ Len(knot) = 4
    /\ knot[2] = knot[3]
    /\ SecondDerivative(splineRes.spline, 2, Rat(0))[1] # Rat(0)
    /\ SecondDerivative(splineRes.spline, 2, Rat(0))[2] # Rat(0)
    /\ splineRes.spline[1].px.b[2] > 1

=============================================================================
